---- MODULE Spec2Model ----
(***************************************************************************)
(* A model of flashcards.py: the Card/Deck classes, the text file format   *)
(* of import_file/export_file, the card_practice loop and the commands of  *)
(* main()'s menu loop.                                                     *)
(*                                                                         *)
(* Strings are sequences of one-character strings, so that the file format *)
(* (f-string formatting, str.split, str.strip, int) is computed character  *)
(* by character.                                                           *)
(***************************************************************************)
EXTENDS Integers, Sequences, FiniteSets, TLC

\* ------------------------------------------------------------------ bounds
MaxCards == 2
MaxTimes == 3
MaxMistakes == 2

\* The strings the user types at a prompt (input() never returns a line
\* break): the terms, and the definitions and answers.
Terms == { <<"a">>, <<"b">>, <<"a", ":">> }
Defs == { <<"x">>, <<"x", ":", "1">> }

\* The paths the user names: a file in the working directory, and a path
\* inside a directory that does not exist (open() raises FileNotFoundError).
GoodPath == "deck.txt"
BadPath == "nodir/deck.txt"
Paths == {GoodPath, BadPath}

NoFile == "NoFile"
NL == "\n"

VARIABLES
    deck,   \* Deck.cards: sequence of [term, definition, mistakes]
    file,   \* the content of GoodPath, or NoFile
    pc,     \* "menu", "while" (line 302), "for" (line 303), "crashed"
    times,  \* card_practice: parameter times
    count,  \* card_practice: local count
    idx,    \* card_practice: position of the list iterator of line 303
    asked,  \* history: the questions of the running card_practice
    deck0,  \* history: the deck when the running card_practice was entered
    snap,   \* history: the deck when export_file last wrote the file
    out     \* what the last command printed

vars == <<deck, file, pc, times, count, idx, asked, deck0, snap, out>>

\* ------------------------------------------------------------------ strings
Digits == <<"0", "1", "2", "3", "4", "5", "6", "7", "8", "9">>

IsDigit(c) == \E d \in 1..10 : Digits[d] = c

DigitVal(c) == (CHOOSE d \in 1..10 : Digits[d] = c) - 1

IsSpace(c) == c \in {NL, " "}

\* f'{n}' for a non-negative int
RECURSIVE IntToStr(_)
IntToStr(n) ==
    IF n < 10 THEN <<Digits[n + 1]>>
    ELSE IntToStr(n \div 10) \o <<Digits[(n % 10) + 1]>>

\* str.split(sep) with a one-character separator: always at least one field
RECURSIVE Split(_, _)
Split(s, sep) ==
    IF \A i \in 1..Len(s) : s[i] # sep THEN <<s>>
    ELSE LET k == CHOOSE i \in 1..Len(s) :
                     s[i] = sep /\ \A j \in 1..(i - 1) : s[j] # sep
         IN  <<SubSeq(s, 1, k - 1)>> \o Split(SubSeq(s, k + 1, Len(s)), sep)

\* f.readlines(): the lines of the text, each with its line break
RECURSIVE ReadLines(_)
ReadLines(s) ==
    IF s = <<>> THEN <<>>
    ELSE IF \A i \in 1..Len(s) : s[i] # NL THEN <<s>>
    ELSE LET k == CHOOSE i \in 1..Len(s) :
                     s[i] = NL /\ \A j \in 1..(i - 1) : s[j] # NL
         IN  <<SubSeq(s, 1, k)>> \o ReadLines(SubSeq(s, k + 1, Len(s)))

\* str.strip()
RECURSIVE Strip(_)
Strip(s) ==
    IF s = <<>> THEN s
    ELSE IF IsSpace(s[1]) THEN Strip(Tail(s))
    ELSE IF IsSpace(s[Len(s)]) THEN Strip(SubSeq(s, 1, Len(s) - 1))
    ELSE s

RECURSIVE DigitsVal(_)
DigitsVal(s) ==
    IF s = <<>> THEN 0
    ELSE 10 * DigitsVal(SubSeq(s, 1, Len(s) - 1)) + DigitVal(s[Len(s)])

\* int(s) on text made of digits; anything else raises ValueError
ParseInt(s) ==
    IF s # <<>> /\ \A i \in 1..Len(s) : IsDigit(s[i])
    THEN [ok |-> TRUE, val |-> DigitsVal(s)]
    ELSE [ok |-> FALSE, val |-> 0]

\* ------------------------------------------------------------------ Card
Card(term, definition, mistakes) ==
    [term |-> term, definition |-> definition, mistakes |-> mistakes]

add_mistake(card) == [card EXCEPT !.mistakes = @ + 1]

card_reset(card) == [card EXCEPT !.mistakes = 0]

\* ------------------------------------------------------------------ Deck
\* The loop returns in its first pass; on an empty list the function falls
\* off its end and returns None.
has_term(cards, term) ==
    IF cards = <<>> THEN "None"
    ELSE IF term = cards[1].term THEN "True" ELSE "False"

has_def(cards, definition) ==
    IF cards = <<>> THEN "None"
    ELSE IF definition = cards[1].definition THEN "True" ELSE "False"

\* Python's truth value of what has_term / has_def return
Truthy(v) == v = "True"

add_card(cards, card) == Append(cards, card)

RemoveAt(cards, i) == SubSeq(cards, 1, i - 1) \o SubSeq(cards, i + 1, Len(cards))

\* for card in self.cards: the list iterator holds a position k and stops
\* when k reaches the list's current length; self.cards.remove(card) takes
\* out the card the iterator is at (Card defines no __eq__, so list.remove
\* finds it by identity) and the position still advances.
RECURSIVE remove_loop(_, _, _)
remove_loop(cards, k, term) ==
    IF k > Len(cards) THEN cards
    ELSE IF cards[k].term = term
         THEN remove_loop(RemoveAt(cards, k), k + 1, term)
         ELSE remove_loop(cards, k + 1, term)

remove_card(cards, term) == remove_loop(cards, 1, term)

size(cards) == Len(cards)

definitions(cards) == [i \in 1..Len(cards) |-> cards[i].definition]

\* The term of the first card with the definition. (With no such card the
\* function returns None; card_practice calls it only for a definition that
\* is in definitions().)
get_term(cards, definition) ==
    cards[CHOOSE i \in 1..Len(cards) :
              /\ cards[i].definition = definition
              /\ \A j \in 1..(i - 1) : cards[j].definition # definition].term

\* max() of the list of mistakes; max() of an empty list raises ValueError
most_mistakes(cards) ==
    IF cards = <<>> THEN [raised |-> TRUE, val |-> 0]
    ELSE [raised |-> FALSE,
          val |-> CHOOSE m \in {cards[i].mistakes : i \in 1..Len(cards)} :
                      \A i \in 1..Len(cards) : cards[i].mistakes <= m]

\* hardest_card without the filter of line 127
hardest_card_NoFilter(cards) ==
    LET IsMax(x) == x.mistakes = most_mistakes(cards).val
    IN  IF \E i \in 1..Len(cards) : most_mistakes(cards).raised
        THEN [raised |-> TRUE, cards |-> <<>>]
        ELSE [raised |-> FALSE, cards |-> SelectSeq(cards, IsMax)]

\* The comprehension of line 126 calls most_mistakes() once per card, so it
\* raises only if there is a card to test; line 127 then drops the cards
\* with no mistake.
hardest_card(cards) ==
    LET IsMax(x) == x.mistakes = most_mistakes(cards).val
        NonZero(x) == x.mistakes # 0
    IN  IF \E i \in 1..Len(cards) : most_mistakes(cards).raised
        THEN [raised |-> TRUE, cards |-> <<>>]
        ELSE [raised |-> FALSE,
              cards |-> SelectSeq(SelectSeq(cards, IsMax), NonZero)]

clear(cards) == <<>>

\* ------------------------------------------------------------------ file format
\* f'{card.term}:{card.definition}:{card.mistakes}\n'
FormatCard(card) ==
    card.term \o <<":">> \o card.definition \o <<":">>
        \o IntToStr(card.mistakes) \o <<NL>>

\* the writes of the loop of lines 273-274, in order
RECURSIVE WriteCards(_)
WriteCards(cards) ==
    IF cards = <<>> THEN <<>>
    ELSE FormatCard(Head(cards)) \o WriteCards(Tail(cards))

\* import_loop building Card(card[0], card[1]): the count of the line is
\* parsed and dropped
RECURSIVE import_loop_NoCount(_, _, _)
import_loop_NoCount(cards, lines, row) ==
    IF lines = <<>> THEN [cards |-> cards, row |-> row, raised |-> FALSE]
    ELSE LET card == Split(Head(lines), ":")
         IN  IF Len(card) < 3 \/ ~ParseInt(Strip(card[3])).ok
             THEN [cards |-> cards, row |-> row, raised |-> TRUE]
             ELSE import_loop_NoCount(
                      add_card(cards, Card(card[1], card[2], 0)),
                      Tail(lines), row + 1)

\* The loop of lines 253-256 over the lines that are left: card[2] raises
\* IndexError on a line of fewer than three fields and int() raises
\* ValueError on a third field that is no number; neither is caught, and the
\* cards of the lines before stay in the deck.
RECURSIVE import_loop(_, _, _)
import_loop(cards, lines, row) ==
    IF lines = <<>> THEN [cards |-> cards, row |-> row, raised |-> FALSE]
    ELSE LET card == Split(Head(lines), ":")
         IN  IF Len(card) < 3 \/ ~ParseInt(Strip(card[3])).ok
             THEN [cards |-> cards, row |-> row, raised |-> TRUE]
             ELSE import_loop(
                      add_card(cards, Card(card[1], card[2],
                                           ParseInt(Strip(card[3])).val)),
                      Tail(lines), row + 1)

\* ------------------------------------------------------------------ state
\* What a command printed: the command, the message, the string the message
\* quotes, the number it reports, the cards hardest_card() returned.
Out(cmd, msg, arg, n, cards) ==
    [cmd |-> cmd, msg |-> msg, arg |-> arg, n |-> n, cards |-> cards]

NoLocals ==
    /\ times' = 0
    /\ count' = 0
    /\ idx' = 0
    /\ asked' = <<>>
    /\ deck0' = <<>>

\* main(), lines 355-357, started with no --import_from
Init ==
    /\ deck = <<>>
    /\ file = NoFile
    /\ pc = "menu"
    /\ times = 0
    /\ count = 0
    /\ idx = 0
    /\ asked = <<>>
    /\ deck0 = <<>>
    /\ snap = <<>>
    /\ out = Out("start", "", <<>>, 0, <<>>)

\* Any sequence of cards is a deck the program can hold: import_file appends
\* the lines of a file unchecked (main() imports --import_from before the
\* menu loop) and add checks a new card against the first card only.
AnyCards ==
    { Card(term, definition, mistakes) :
          term \in Terms, definition \in Defs, mistakes \in 0..MaxMistakes }

AnyDecks == UNION { [1..n -> AnyCards] : n \in 0..MaxCards }

\* main() at its first prompt, holding some deck
InitAnyDeck ==
    /\ deck \in AnyDecks
    /\ file = NoFile
    /\ pc = "menu"
    /\ times = 0
    /\ count = 0
    /\ idx = 0
    /\ asked = <<>>
    /\ deck0 = <<>>
    /\ snap = <<>>
    /\ out = Out("start", "", <<>>, 0, <<>>)

\* ------------------------------------------------------------------ commands
\* add: get_term and get_def prompt again, changing nothing, until the
\* string typed passes; term and definition are the strings that passed.
Add(term, definition) ==
    /\ pc = "menu"
    /\ Len(deck) < MaxCards
    /\ ~Truthy(has_term(deck, term))
    /\ ~Truthy(has_def(deck, definition))
    /\ deck' = add_card(deck, Card(term, definition, 0))
    /\ out' = Out("add", "added", term, 0, <<>>)
    /\ UNCHANGED <<file, pc, times, count, idx, asked, deck0, snap>>

Remove(term) ==
    /\ pc = "menu"
    /\ IF Truthy(has_term(deck, term))
       THEN /\ deck' = remove_card(deck, term)
            /\ out' = Out("remove", "removed", term, 0, <<>>)
       ELSE /\ deck' = deck
            /\ out' = Out("remove", "NoSuchCard", term, 0, <<>>)
    /\ UNCHANGED <<file, pc, times, count, idx, asked, deck0, snap>>

\* import_file with the file name typed by the user
Import(path) ==
    /\ pc = "menu"
    /\ IF path = BadPath \/ file = NoFile
       THEN /\ deck' = deck
            /\ pc' = pc
            /\ out' = Out("import", "File not found.", <<>>, 0, <<>>)
       ELSE LET r == import_loop(deck, ReadLines(file), 0)
            IN  /\ Len(r.cards) <= MaxCards
                /\ deck' = r.cards
                /\ IF r.raised
                   THEN /\ pc' = "crashed"
                        /\ out' = Out("import", "Traceback", <<>>, r.row, <<>>)
                   ELSE /\ pc' = pc
                        /\ out' = Out("import", "loaded", <<>>, r.row, <<>>)
    /\ UNCHANGED <<file, times, count, idx, asked, deck0, snap>>

\* export_file clearing the deck before it reports the size
Export_ClearFirst(path) ==
    /\ pc = "menu"
    /\ IF path = BadPath
       THEN /\ deck' = deck
            /\ file' = file
            /\ snap' = snap
            /\ out' = Out("export", "Failed.", <<>>, 0, <<>>)
       ELSE /\ file' = WriteCards(deck)
            /\ deck' = clear(deck)
            /\ out' = Out("export", "saved", <<>>, size(clear(deck)), <<>>)
            /\ snap' = deck
    /\ UNCHANGED <<pc, times, count, idx, asked, deck0>>

\* export_file with the file name typed by the user
Export(path) ==
    /\ pc = "menu"
    /\ IF path = BadPath
       THEN /\ deck' = deck
            /\ file' = file
            /\ snap' = snap
            /\ out' = Out("export", "Failed.", <<>>, 0, <<>>)
       ELSE /\ file' = WriteCards(deck)
            /\ out' = Out("export", "saved", <<>>, size(deck), <<>>)
            /\ deck' = clear(deck)
            /\ snap' = deck
    /\ UNCHANGED <<pc, times, count, idx, asked, deck0>>

HardestCard ==
    /\ pc = "menu"
    /\ LET r == hardest_card(deck)
       IN  IF r.raised
           THEN /\ pc' = "crashed"
                /\ out' = Out("hardest card", "Traceback", <<>>, 0, <<>>)
           ELSE /\ pc' = pc
                /\ out' = Out("hardest card",
                              IF r.cards = <<>> THEN "no cards with errors"
                              ELSE IF Len(r.cards) = 1 THEN "hardest card"
                              ELSE "hardest cards",
                              <<>>, Len(r.cards), r.cards)
    /\ UNCHANGED <<deck, file, times, count, idx, asked, deck0, snap>>

Reset ==
    /\ pc = "menu"
    /\ deck' = [i \in 1..Len(deck) |-> card_reset(deck[i])]
    /\ out' = Out("reset stats", "reset", <<>>, 0, <<>>)
    /\ UNCHANGED <<file, pc, times, count, idx, asked, deck0, snap>>

\* ask: input that is no integer prompts again; n is the integer typed.
Ask(n) ==
    /\ pc = "menu"
    /\ pc' = "while"
    /\ times' = n
    /\ count' = 0
    /\ idx' = 0
    /\ asked' = <<>>
    /\ deck0' = deck
    /\ out' = Out("ask", "How many times to ask?", <<>>, n, <<>>)
    /\ UNCHANGED <<deck, file, snap>>

\* ------------------------------------------------------------------ card_practice
\* line 302: the test of the while loop; when it fails the function returns
PracticeWhile ==
    /\ pc = "while"
    /\ IF count < times
       THEN /\ pc' = "for"
            /\ idx' = 0
            /\ UNCHANGED <<times, count, asked, deck0, out>>
       ELSE /\ pc' = "menu"
            /\ NoLocals
            /\ out' = Out("ask", "done", <<>>, 0, <<>>)
    /\ UNCHANGED <<deck, file, snap>>

\* line 303: the iterator is past the end of the list, the for loop ends
ForExhausted ==
    /\ pc = "for"
    /\ idx >= Len(deck)
    /\ pc' = "while"
    /\ idx' = 0
    /\ UNCHANGED <<deck, file, times, count, asked, deck0, snap, out>>

\* lines 304-305
ForBreak ==
    /\ pc = "for"
    /\ idx < Len(deck)
    /\ count = times
    /\ pc' = "while"
    /\ idx' = 0
    /\ UNCHANGED <<deck, file, times, count, asked, deck0, snap, out>>

\* the question without the test of lines 304-305
Question_NoBreak(answer) ==
    /\ pc = "for"
    /\ idx < Len(deck)
    /\ LET card == deck[idx + 1]
       IN  /\ answer # card.definition => card.mistakes < MaxMistakes
           /\ IF answer = card.definition
              THEN /\ deck' = deck
                   /\ out' = Out("ask", "Correct!", <<>>, 0, <<>>)
              ELSE IF \E i \in 1..Len(deck) : definitions(deck)[i] = answer
              THEN /\ deck' = [deck EXCEPT ![idx + 1] = add_mistake(card)]
                   /\ out' = Out("ask", "Wrong, correct for",
                                 get_term(deck, answer), 0, <<>>)
              ELSE /\ deck' = [deck EXCEPT ![idx + 1] = add_mistake(card)]
                   /\ out' = Out("ask", "Wrong", <<>>, 0, <<>>)
           /\ asked' = Append(asked, [pos |-> idx, answer |-> answer])
    /\ count' = count + 1
    /\ idx' = idx + 1
    /\ UNCHANGED <<file, pc, times, deck0, snap>>

\* the question without the add_mistake() of line 314
Question_SwappedUnscored(answer) ==
    /\ pc = "for"
    /\ idx < Len(deck)
    /\ count # times
    /\ LET card == deck[idx + 1]
       IN  /\ answer # card.definition => card.mistakes < MaxMistakes
           /\ IF answer = card.definition
              THEN /\ deck' = deck
                   /\ out' = Out("ask", "Correct!", <<>>, 0, <<>>)
              ELSE IF \E i \in 1..Len(deck) : definitions(deck)[i] = answer
              THEN /\ deck' = deck
                   /\ out' = Out("ask", "Wrong, correct for",
                                 get_term(deck, answer), 0, <<>>)
              ELSE /\ deck' = [deck EXCEPT ![idx + 1] = add_mistake(card)]
                   /\ out' = Out("ask", "Wrong", <<>>, 0, <<>>)
           /\ asked' = Append(asked, [pos |-> idx, answer |-> answer])
    /\ count' = count + 1
    /\ idx' = idx + 1
    /\ UNCHANGED <<file, pc, times, deck0, snap>>

\* lines 306-320: one question, answered with answer
Question(answer) ==
    /\ pc = "for"
    /\ idx < Len(deck)
    /\ count # times
    /\ LET card == deck[idx + 1]
       IN  /\ answer # card.definition => card.mistakes < MaxMistakes
           /\ IF answer = card.definition
              THEN /\ deck' = deck
                   /\ out' = Out("ask", "Correct!", <<>>, 0, <<>>)
              ELSE IF \E i \in 1..Len(deck) : definitions(deck)[i] = answer
              THEN /\ deck' = [deck EXCEPT ![idx + 1] = add_mistake(card)]
                   /\ out' = Out("ask", "Wrong, correct for",
                                 get_term(deck, answer), 0, <<>>)
              ELSE /\ deck' = [deck EXCEPT ![idx + 1] = add_mistake(card)]
                   /\ out' = Out("ask", "Wrong", <<>>, 0, <<>>)
           /\ asked' = Append(asked, [pos |-> idx, answer |-> answer])
    /\ count' = count + 1
    /\ idx' = idx + 1
    /\ UNCHANGED <<file, pc, times, deck0, snap>>

\* ------------------------------------------------------------------ specification
Next ==
    \/ \E term \in Terms, definition \in Defs : Add(term, definition)
    \/ \E term \in Terms : Remove(term)
    \/ \E path \in Paths : Import(path)
    \/ \E path \in Paths : Export(path)
    \/ HardestCard
    \/ Reset
    \/ \E n \in -1..MaxTimes : Ask(n)
    \/ PracticeWhile
    \/ ForExhausted
    \/ ForBreak
    \/ \E answer \in Defs : Question(answer)

\* The program started with an empty deck, every command.
Spec == Init /\ [][Next]_vars

\* The program runs on, and the user answers every question that is asked.
Fairness ==
    /\ WF_vars(PracticeWhile)
    /\ WF_vars(ForExhausted)
    /\ WF_vars(ForBreak)
    /\ WF_vars(\E answer \in Defs : Question(answer))

\* Practice on any deck: ask, hardest card and reset stats.
NextPractice ==
    \/ \E n \in -1..MaxTimes : Ask(n)
    \/ PracticeWhile
    \/ ForExhausted
    \/ ForBreak
    \/ \E answer \in Defs : Question(answer)
    \/ HardestCard
    \/ Reset

PracticeSpec == InitAnyDeck /\ [][NextPractice]_vars

\* Export and import of any deck.
NextFile ==
    \/ \E path \in Paths : Export(path)
    \/ \E path \in Paths : Import(path)

FileSpec == InitAnyDeck /\ [][NextFile]_vars

FairPracticeSpec == PracticeSpec /\ Fairness

\* ------------------------------------------------------------------ properties
HasColon(str) == \E i \in 1..Len(str) : str[i] = ":"

ColonFree(cards) ==
    \A i \in 1..Len(cards) :
        ~HasColon(cards[i].term) /\ ~HasColon(cards[i].definition)

InPractice == pc \in {"while", "for"}

\* the cards of cards with a term other than term, in order
WithoutTerm(cards, term) ==
    LET Other(x) == x.term # term IN SelectSeq(cards, Other)

\* a step of the remove command; out'.arg is the term typed
RemoveStep == pc = "menu" /\ out'.cmd = "remove"

\* a step of export_file
ExportStep == pc = "menu" /\ out'.cmd = "export"

\* a step of import_file that opened the file, taken right after an
\* export_file that wrote it
ReimportStep ==
    /\ pc = "menu"
    /\ out.cmd = "export" /\ out.msg = "saved"
    /\ out'.cmd = "import" /\ out'.msg # "File not found."

\* a step of card_practice that asks a question
QuestionStep == pc = "for" /\ count' = count + 1

\* C1: from the empty deck, after any sequence of commands, no two cards of
\* the deck share a term and no two share a definition.
C1_NoDuplicates ==
    \A i, j \in 1..Len(deck) :
        i # j => /\ deck[i].term # deck[j].term
                 /\ deck[i].definition # deck[j].definition

\* C2: card_practice terminates when the user answers every question: a
\* practice that was entered returns to the menu.
C2_Terminates == InPractice ~> (pc = "menu")

\* C3: on a non-empty deck of size S with N >= 0, the k-th question is about
\* the card at position k mod S, never more than N questions are asked, the
\* function returns after exactly N, and with N = 0 nothing is asked and no
\* counter changes.
C3_AsksInOrder ==
    (InPractice /\ deck # <<>> /\ times >= 0) =>
        /\ Len(asked) = count
        /\ count <= times
        /\ \A k \in 1..Len(asked) : asked[k].pos = (k - 1) % Len(deck)
        /\ (pc = "while" /\ ~(count < times)) => Len(asked) = times
        /\ times = 0 => (asked = <<>> /\ deck = deck0)

C3_Witness ==
    /\ pc = "while"
    /\ ~(count < times)
    /\ Len(deck) = 2
    /\ times = 3
    /\ Len(asked) = 3
    /\ asked[3].pos = 0

\* the number of wrong answers given so far to the card at position i
WrongAnswers(i) ==
    Cardinality({ k \in 1..Len(asked) :
                    asked[k].pos = i - 1 /\ asked[k].answer # deck0[i].definition })

\* C4: a question adds 1 to the mistakes of the card asked iff the answer
\* differs from that card's definition, and changes nothing else of the deck;
\* so throughout a practice each card's mistakes is its mistakes on entry
\* plus the number of wrong answers given to it.
C4_Scoring ==
    /\ [](InPractice =>
             /\ Len(deck) = Len(deck0)
             /\ \A i \in 1..Len(deck) :
                    deck[i] = [deck0[i] EXCEPT !.mistakes = @ + WrongAnswers(i)])
    /\ [][QuestionStep =>
             LET i == idx + 1
                 answer == asked'[Len(asked')].answer
             IN  /\ Len(deck') = Len(deck)
                 /\ \A j \in 1..Len(deck) :
                        /\ deck'[j].term = deck[j].term
                        /\ deck'[j].definition = deck[j].definition
                        /\ deck'[j].mistakes =
                               IF j = i /\ answer # deck[i].definition
                               THEN deck[j].mistakes + 1
                               ELSE deck[j].mistakes]_vars

\* a wrong answer that is another card's definition has been scored
C4_Witness ==
    /\ InPractice
    /\ \E k \in 1..Len(asked) :
           LET i == asked[k].pos + 1
           IN  /\ asked[k].answer # deck0[i].definition
               /\ \E j \in 1..Len(deck0) : deck0[j].definition = asked[k].answer
               /\ deck[i].mistakes = deck0[i].mistakes + 1

\* C5 as stated: a deck of any strings, exported and imported again from the
\* same file into the emptied deck, is the deck that was exported.
C5_RoundTripAnyString ==
    [][ReimportStep => (pc' = "menu" /\ deck' = snap)]_vars

\* C5 amended: the round trip gives back the exported deck when no term and
\* no definition of it contains a colon.
C5_RoundTripColonFree ==
    [][(ReimportStep /\ ColonFree(snap)) => (pc' = "menu" /\ deck' = snap)]_vars

C5_Witness ==
    /\ out.cmd = "import" /\ out.msg = "loaded"
    /\ Len(snap) = 2
    /\ ColonFree(snap)
    /\ \E i \in 1..Len(snap) : snap[i].mistakes > 1
    /\ out.n = Len(deck)
    /\ deck = snap

\* C6: remove_card(t) removes every card with term t and keeps the other
\* cards in order.
C6_RemovesEvery ==
    [][(RemoveStep /\ out'.msg = "removed") =>
           deck' = WithoutTerm(deck, out'.arg)]_vars

\* C7: the remove command removes the card with the term typed if the deck
\* has one at any position, and otherwise prints the NoSuchCard message and
\* leaves the deck unchanged.
C7_RemoveCommand ==
    [][RemoveStep =>
           IF \E i \in 1..Len(deck) : deck[i].term = out'.arg
           THEN /\ out'.msg = "removed"
                /\ Len(deck') < Len(deck)
           ELSE /\ out'.msg = "NoSuchCard"
                /\ deck' = deck]_vars

\* C8: has_term(s) returns a true value iff some card of the deck has term s.
C8_HasTermIff ==
    \A s \in Terms :
        Truthy(has_term(deck, s)) <=> \E i \in 1..Len(deck) : deck[i].term = s

\* the cards hardest_card() is to return
Hardest(cards) ==
    LET IsHardest(x) ==
            /\ x.mistakes # 0
            /\ \A j \in 1..Len(cards) : cards[j].mistakes <= x.mistakes
    IN  SelectSeq(cards, IsHardest)

\* C9: hardest_card() raises no error and returns, in deck order, the cards
\* with the largest mistakes when that is not zero, and no card otherwise.
C9_HardestCards ==
    /\ ~hardest_card(deck).raised
    /\ hardest_card(deck).cards = Hardest(deck)
    /\ out.cmd = "hardest card" =>
           /\ pc = "menu"
           /\ out.cards = Hardest(deck)
           /\ out.n = Len(Hardest(deck))

\* hardest card has run on a deck with a card of fewer, but some, mistakes
C9_Witness ==
    /\ out.cmd = "hardest card"
    /\ Len(out.cards) = 1
    /\ \E i \in 1..Len(deck) :
           deck[i].mistakes # 0 /\ deck[i].mistakes < out.cards[1].mistakes

\* the text of n records term:definition:mistakes, one per card, in order
RECURSIVE Records(_)
Records(cards) ==
    IF cards = <<>> THEN <<>>
    ELSE Records(SubSeq(cards, 1, Len(cards) - 1))
             \o cards[Len(cards)].term \o <<":">>
             \o cards[Len(cards)].definition \o <<":">>
             \o IntToStr(cards[Len(cards)].mistakes) \o <<NL>>

\* C10: an export that succeeds writes the records of the deck in order,
\* reports the size the deck had and empties the deck; an export that
\* cannot open its destination changes neither the deck nor the file.
C10_ExportClears ==
    [][ExportStep =>
           IF out'.msg = "saved"
           THEN /\ file' = Records(deck)
                /\ out'.n = Len(deck)
                /\ deck' = <<>>
           ELSE /\ out'.msg = "Failed."
                /\ deck' = deck
                /\ file' = file]_vars

C10_Witness ==
    /\ out.cmd = "export" /\ out.msg = "saved"
    /\ out.n = 2
    /\ deck = <<>>
    /\ Len(ReadLines(file)) = 2

====
